---- MODULE Spec2Model ----
(***************************************************************************)
(* The DID lifecycle engine of the WebVH service: the DIDComm DID          *)
(* management protocol (did/request, did/publish, did/witness-publish,     *)
(* did/info-request, did/list-request, did/delete) over a key-value store  *)
(* with batched writes.  The server processing steps are those of          *)
(* docs/didcomm-did-management-protocol.md; the storage backends and the   *)
(* resource limits are those of the server README.                         *)
(***************************************************************************)
EXTENDS Integers, Sequences, FiniteSets, TLC

VARIABLES
    backend,   \* the one storage backend the build selected
    acl,       \* acl:{did} -> AclEntry
    store,     \* every other persisted key -> value (only the keys that exist)
    pc,        \* per worker: "idle", "commit" (batch in flight), "respond"
    req,       \* per worker: the inbound message being handled
    batch,     \* per worker: the writes of the batch not yet applied
    resp,      \* per worker: the response about to be sent
    confirms,  \* history: did/confirm responses per mnemonic since its record was created
    gone,      \* history: the mnemonics whose record was deleted and not reserved again
    ui,        \* the UI's session: stored token, AuthProvider state, requests in flight
    form       \* the UI's DID creation form: input, pathStatus, timer, checks in flight

vars == <<backend, acl, store, pc, req, batch, resp, confirms, gone, ui, form>>

(***************************************************************************)
(* Bounds of the model                                                     *)
(***************************************************************************)
MaxVersions == 2            \* version_count is explored up to this value
DefaultMaxDidCount == 1     \* [limits] default_max_did_count of the explored configuration
DefaultMaxTotalSize == 3    \* [limits] default_max_total_size, in log entries
MaxResolves == 2            \* total_resolves is explored up to this value
MaxRetries == 2             \* retries of a batch after a transient storage failure

Null == "null"

Workers   == {"w1", "w2"}
Actors    == {"alice", "bob", "root", "eve"}
Mnemonics == {"m1", "m2"}
Witnesses == {"wit1", "wit2"}
Backends  == {"fjall", "cloud"}

(***************************************************************************)
(* ACL entries                                                             *)
(***************************************************************************)
NoOverride == 0 - 1         \* an override field that is not set (null)

NoEntry == [role |-> "none", max_did_count |-> NoOverride, max_total_size |-> NoOverride]

AclEntry(role, cnt, size) == [role |-> role, max_did_count |-> cnt, max_total_size |-> size]

\* alice: owner on the server defaults; bob: owner with overrides;
\* root: admin carrying the same fields as alice; eve: not in the ACL.
InitialAcl ==
    [a \in Actors |->
        CASE a = "alice" -> AclEntry("owner", NoOverride, NoOverride)
          [] a = "bob"   -> AclEntry("owner", 2, 2)
          [] a = "root"  -> AclEntry("admin", NoOverride, NoOverride)
          [] OTHER       -> NoEntry]

HasAcl(a)  == acl[a].role # "none"

\* An admin test that takes every ACL member for an admin.
IsAdminAnyRole(a) == HasAcl(a)

IsAdmin(a) == acl[a].role = "admin"

\* An authorization that forgets the ownership check.
authorizeAclOnly(actor, targetOwner) == HasAcl(actor)

\* authorize: the sender must be in the ACL; an admin may act on any
\* target, an owner only on its own.
authorize(actor, targetOwner) ==
    /\ HasAcl(actor)
    /\ IsAdmin(actor) \/ targetOwner = actor

(***************************************************************************)
(* The WebVH log: a JSONL text, one line per log entry                     *)
(***************************************************************************)
RequiredFields == {"versionId", "versionTime", "parameters", "state", "proof"}
SupportedSuite == "eddsa-jcs-2022"

\* One parsed entry.  n and tag are the two halves of versionId "<n>-<hash>",
\* prev is the value the hash was chained over, seed stands for the content
\* the SCID is derived from, id is state.id, keys is parameters.updateKeys,
\* signer and suite describe the proof.
Entry(n, tag, prev, scid, seed, id, keys, signer, suite) ==
    [n |-> n, tag |-> tag, prev |-> prev, scid |-> scid, seed |-> seed,
     id |-> id, keys |-> keys, signer |-> signer, suite |-> suite]

\* One line of the JSONL text: an empty line, a line that is not JSON, or a
\* JSON object with some of the required fields.
Line(e)        == [kind |-> "json", has |-> RequiredFields, e |-> e]
LineMissing(e, f) == [kind |-> "json", has |-> RequiredFields \ {f}, e |-> e]
EmptyLine      == [kind |-> "empty"]
GarbageLine    == [kind |-> "garbage"]

InvalidLog   == "invalid-log"
ProofInvalid == "proof-invalid"

RECURSIVE DropEmpty(_)
DropEmpty(raw) ==
    IF raw = <<>> THEN <<>>
    ELSE IF Head(raw).kind = "empty" THEN DropEmpty(Tail(raw))
    ELSE <<Head(raw)>> \o DropEmpty(Tail(raw))

LineOk(l) == l.kind = "json" /\ l.has = RequiredFields

\* A parse that skips the lines it cannot read.
parseSkipping(raw) ==
    LET lines == SelectSeq(raw, LineOk) IN
    [ok |-> TRUE, entries |-> [i \in 1..Len(lines) |-> lines[i].e]]

\* parse: split on newlines, parse each non-empty line as one JSON object;
\* any malformed line or missing required field fails the whole log.
parse(raw) ==
    LET lines == DropEmpty(raw) IN
    IF \A i \in 1..Len(lines) : LineOk(lines[i])
    THEN [ok |-> TRUE, entries |-> [i \in 1..Len(lines) |-> lines[i].e]]
    ELSE [ok |-> FALSE, entries |-> <<>>]

\* serialize: one JSON line per entry, joined with newlines.
serialize(entries) == [i \in 1..Len(entries) |-> Line(entries[i])]

\* The SCID derived from the genesis entry's content.
DeriveScid(e) == e.seed

\* state.id is "did:webvh:<scid>:<host>:<path>"; the SCID it embeds.
IdScid(id) ==
    CASE id = "did:webvh:A:host:p"  -> "A"
      [] id = "did:webvh:B:host:p"  -> "B"
      [] OTHER -> Null

\* A version check that only asks for increasing version numbers.
VersionOkIncreasing(entries, i) ==
    IF i = 1 THEN entries[1].n = 1 /\ entries[1].prev = entries[1].scid
    ELSE entries[i].n > entries[i - 1].n /\ entries[i].prev = entries[i - 1].tag

\* versionId "<n>-<hash>": the first entry is version 1 and hashes over the
\* SCID, each later entry is one more than its predecessor and hashes over
\* the predecessor's versionId.
VersionOk(entries, i) ==
    IF i = 1 THEN entries[1].n = 1 /\ entries[1].prev = entries[1].scid
    ELSE entries[i].n = entries[i - 1].n + 1 /\ entries[i].prev = entries[i - 1].tag

\* A SCID check that does not look at the id embedded in state.
ScidOkParameterOnly(e) == DeriveScid(e) = e.scid

\* The SCID derived from the genesis entry matches parameters.scid and the
\* id embedded in state.
ScidOk(e) == DeriveScid(e) = e.scid /\ IdScid(e.id) = e.scid

\* A proof check that trusts the keys the entry itself declares.
ProofOkOwnKeys(entries, i) ==
    /\ entries[i].suite = SupportedSuite
    /\ entries[i].signer \in entries[i].keys

\* The proof is of a supported cryptosuite and made by a key of the previous
\* entry's updateKeys (of its own updateKeys for the first entry).
ProofOk(entries, i) ==
    /\ entries[i].suite = SupportedSuite
    /\ entries[i].signer \in (IF i = 1 THEN entries[1].keys ELSE entries[i - 1].keys)

\* Checks of one entry that verify the proof before the SCID.
CheckEntryProofFirst(entries, i) ==
    IF ~VersionOk(entries, i) THEN InvalidLog
    ELSE IF ~ProofOk(entries, i) THEN ProofInvalid
    ELSE IF i = 1 /\ ~ScidOk(entries[1]) THEN InvalidLog
    ELSE "ok"

\* The checks of one entry, in order; "ok" or the first failure.
CheckEntry(entries, i) ==
    IF ~VersionOk(entries, i) THEN InvalidLog
    ELSE IF i = 1 /\ ~ScidOk(entries[1]) THEN InvalidLog
    ELSE IF ~ProofOk(entries, i) THEN ProofInvalid
    ELSE "ok"

RECURSIVE ValidateFrom(_, _)
ValidateFrom(entries, i) ==
    IF i > Len(entries) THEN "ok"
    ELSE LET r == CheckEntry(entries, i) IN
         IF r # "ok" THEN r ELSE ValidateFrom(entries, i + 1)

\* A validation that trusts every entry but the newest one.
validateChainNewest(entries) ==
    IF Len(entries) = 0 THEN InvalidLog ELSE CheckEntry(entries, Len(entries))

\* validateChain: fails fast on the first invalid entry; an empty log is
\* not a log.
validateChain(entries) ==
    IF Len(entries) = 0 THEN InvalidLog ELSE ValidateFrom(entries, 1)

\* An extraction that only handles a single-entry log.
ExtractDidIdGenesisOnly(entries) ==
    IF Len(entries) = 1 THEN entries[1].id ELSE Null

\* The did:webvh identifier of a log: the last entry's state.id.
ExtractDidId(entries) == entries[Len(entries)].id

\* A latest versionId that is read from the first entry.
LatestVersionIdOfFirst(entries) == <<entries[1].n, entries[1].tag>>

\* The versionId of the latest entry: the last line of the log.
LatestVersionId(entries) ==
    <<entries[Len(entries)].n, entries[Len(entries)].tag>>

\* Content size of a JSONL text, one unit per line.
ContentSize(raw) == Len(raw)

\* The logs the clients of the explored runs submit.
K1 == "k1"
K2 == "k2"
E1A  == Entry(1, "t1", "A", "A", "A", "did:webvh:A:host:p", {K1}, K1, SupportedSuite)
E2A  == Entry(2, "t2", "t1", "A", "A", "did:webvh:A:host:p", {K1}, K1, SupportedSuite)
E3A  == Entry(3, "t3", "t2", "A", "A", "did:webvh:A:host:p", {K1}, K1, SupportedSuite)
E1B  == Entry(1, "t1", "B", "B", "B", "did:webvh:B:host:p", {K2}, K2, SupportedSuite)
E1X  == Entry(1, "t1", "A", "A", "A", "did:webvh:B:host:p", {K1}, K1, SupportedSuite)
E1P  == Entry(1, "t1", "A", "A", "A", "did:webvh:A:host:p", {K1}, K2, SupportedSuite)

LogA1   == <<Line(E1A)>>
LogA2   == <<Line(E1A), Line(E2A)>>
LogB1   == <<Line(E1B)>>
LogGap  == <<Line(E1A), Line(E3A)>>
LogScid == <<Line(E1X)>>
LogSig  == <<Line(E1P)>>
LogJunk == <<GarbageLine>>

ValidLogs   == {LogA1, LogA2, LogB1}
InvalidLogs == {LogGap, LogScid, LogSig, LogJunk}
Logs        == ValidLogs \cup InvalidLogs

(***************************************************************************)
(* The persisted key layout and the batches written to it                  *)
(***************************************************************************)
DidKey(m)      == <<"did", m>>
LogKey(m)      == <<"content", m, "log">>
WitnessKey(m)  == <<"content", m, "witness">>
OwnerKey(o, m) == <<"owner", o, m>>
StatsKey(m)    == <<"stats", m>>

Exists(k) == k \in DOMAIN store

DidRecord(owner, vc, did, size) ==
    [owner |-> owner, version_count |-> vc, did_id |-> did, content_size |-> size]

Stats(resolves, updates) == [total_resolves |-> resolves, total_updates |-> updates]

ZeroStats == Stats(0, 0)

PutOp(k, v) == [op |-> "put", key |-> k, val |-> v]
DelOp(k)    == [op |-> "del", key |-> k, val |-> Null]

\* The store after one write of a batch.
Apply(s, o) ==
    IF o.op = "put"
    THEN [k \in DOMAIN s \cup {o.key} |-> IF k = o.key THEN o.val ELSE s[k]]
    ELSE [k \in DOMAIN s \ {o.key} |-> s[k]]

\* The store after every write of a batch (the keys of a batch are distinct).
ApplyAll(s, ops) ==
    LET puts == {o \in ops : o.op = "put"}
        dels == {o.key : o \in {x \in ops : x.op = "del"}}
        putKeys == {o.key : o \in puts}
    IN [k \in (DOMAIN s \cup putKeys) \ dels |->
            IF k \in putKeys THEN (CHOOSE o \in puts : o.key = k).val ELSE s[k]]

\* The DIDs of an owner, enumerated through the owner index.
OwnedBy(o) == {m \in Mnemonics : Exists(OwnerKey(o, m))}

StatsOf(m) == IF Exists(StatsKey(m)) THEN store[StatsKey(m)] ELSE ZeroStats

(***************************************************************************)
(* AclPolicy: quotas                                                       *)
(***************************************************************************)
MaxDidCount(a) ==
    IF acl[a].max_did_count # NoOverride THEN acl[a].max_did_count ELSE DefaultMaxDidCount

MaxTotalSize(a) ==
    IF acl[a].max_total_size # NoOverride THEN acl[a].max_total_size ELSE DefaultMaxTotalSize

\* A quota check that is off by one.
checkDidCountQuotaOffByOne(a, currentCount) ==
    IsAdmin(a) \/ currentCount <= MaxDidCount(a)

\* checkDidCountQuota: admins are exempt; anyone else is rejected at or
\* above the limit.
checkDidCountQuota(a, currentCount) ==
    IsAdmin(a) \/ currentCount < MaxDidCount(a)

\* A size check that also rejects a total equal to the limit.
checkSizeQuotaStrict(a, currentTotalSize, incomingSize) ==
    IsAdmin(a) \/ currentTotalSize + incomingSize < MaxTotalSize(a)

\* checkSizeQuota: admins are exempt; anyone else is rejected when the new
\* total would exceed the limit.
checkSizeQuota(a, currentTotalSize, incomingSize) ==
    IsAdmin(a) \/ currentTotalSize + incomingSize <= MaxTotalSize(a)

RECURSIVE SumSizes(_)
SumSizes(ms) ==
    IF ms = {} THEN 0
    ELSE LET m == CHOOSE x \in ms : TRUE IN
         (IF Exists(DidKey(m)) THEN store[DidKey(m)].content_size ELSE 0)
            + SumSizes(ms \ {m})

\* What an owner stores in its DIDs other than m.
TotalSizeExcept(o, m) == SumSizes(OwnedBy(o) \ {m})

(***************************************************************************)
(* Messages                                                                *)
(***************************************************************************)
MsgIds == {"urn:1", "urn:2"}

RequestMsg(id, from, path) ==
    [type |-> "did/request", id |-> id, from |-> from, path |-> path]
PublishMsg(id, from, m, log) ==
    [type |-> "did/publish", id |-> id, from |-> from, mnemonic |-> m, did_log |-> log]
WitnessMsg(id, from, m, wit) ==
    [type |-> "did/witness-publish", id |-> id, from |-> from, mnemonic |-> m, witness |-> wit]
InfoMsg(id, from, m) ==
    [type |-> "did/info-request", id |-> id, from |-> from, mnemonic |-> m]
ListMsg(id, from, owner) ==
    [type |-> "did/list-request", id |-> id, from |-> from, owner |-> owner]
DeleteMsg(id, from, m) ==
    [type |-> "did/delete", id |-> id, from |-> from, mnemonic |-> m]

NoMsg == [type |-> "none"]
NoReq == [msg |-> NoMsg, target |-> Null, attempt |-> 0]

\* A response; the fields a message type does not carry keep these defaults.
Response(type, msg) ==
    [type |-> type, thid |-> msg.id, to |-> msg.from, code |-> Null,
     mnemonic |-> Null, did_id |-> Null, owner |-> Null, version_count |-> 0 - 1,
     version_id |-> <<>>, has_log |-> FALSE, stats |-> ZeroStats, dids |-> {}]

NoResp == [type |-> "none"]

\* A problem-report that names no thread.
ProblemReportUnthreaded(msg, code) ==
    [Response("did/problem-report", msg) EXCEPT !.code = code, !.thid = Null]

ProblemReport(msg, code) ==
    [Response("did/problem-report", msg) EXCEPT !.code = code]

Unauthorized     == "e.p.did.unauthorized"
QuotaExceeded    == "e.p.did.quota-exceeded"
PathUnavailable  == "e.p.did.path-unavailable"
PathInvalid      == "e.p.did.path-invalid"
MnemonicNotFound == "e.p.did.mnemonic-not-found"
InvalidLogCode   == "e.p.did.invalid-log"
ProofInvalidCode == "e.p.did.proof-invalid"
SizeExceeded     == "e.p.did.size-exceeded"
WitnessInvalid   == "e.p.did.witness-invalid"
NotPublished     == "e.p.did.not-published"
InternalError    == "e.p.did.internal-error"

(***************************************************************************)
(* Custom paths: the segment grammar and the root DID                      *)
(***************************************************************************)
MinSegmentLen == 2
MaxSegmentLen == 63

LowerCase ==
    {"a", "b", "c", "d", "e", "f", "g", "h", "i", "j", "k", "l", "m",
     "n", "o", "p", "q", "r", "s", "t", "u", "v", "w", "x", "y", "z"}
Digits == {"0", "1", "2", "3", "4", "5", "6", "7", "8", "9"}
SegmentChars == LowerCase \cup Digits \cup {"-"}

\* The path the UI reserves for the root DID of the server.
RootPath == ".well-known"

Seg63 == "aaaaaaaaaaaaaaaaaaaaaaaaaaaaaaaaaaaaaaaaaaaaaaaaaaaaaaaaaaaaaaa"
Seg64 == "aaaaaaaaaaaaaaaaaaaaaaaaaaaaaaaaaaaaaaaaaaaaaaaaaaaaaaaaaaaaaaaa"

\* The characters of the paths that are explored.
PathChars(path) ==
    CASE path = "m1"     -> <<"m", "1">>
      [] path = "m2"     -> <<"m", "2">>
      [] path = "a"      -> <<"a">>
      [] path = "Ab"     -> <<"A", "b">>
      [] path = "ab/c-9" -> <<"a", "b", "/", "c", "-", "9">>
      [] path = "ab//cd" -> <<"a", "b", "/", "/", "c", "d">>
      [] path = "ab/c"   -> <<"a", "b", "/", "c">>
      [] path = "a_b"    -> <<"a", "_", "b">>
      [] path = RootPath -> <<".", "w", "e", "l", "l", "-", "k", "n", "o", "w", "n">>
      [] path = Seg63    -> [i \in 1..63 |-> "a"]
      [] path = Seg64    -> [i \in 1..64 |-> "a"]

\* The '/'-separated segments of a sequence of characters.
RECURSIVE Split(_)
Split(cs) ==
    IF \A i \in 1..Len(cs) : cs[i] # "/" THEN <<cs>>
    ELSE LET i == CHOOSE k \in 1..Len(cs) :
                      cs[k] = "/" /\ \A j \in 1..(k - 1) : cs[j] # "/"
         IN <<SubSeq(cs, 1, i - 1)>> \o Split(SubSeq(cs, i + 1, Len(cs)))

SegmentOk(seg) ==
    /\ Len(seg) >= MinSegmentLen
    /\ Len(seg) <= MaxSegmentLen
    /\ \A i \in 1..Len(seg) : seg[i] \in SegmentChars

\* Segments: 2-63 chars, lowercase letters, digits and hyphens; '/' for
\* folders.
SegmentGrammarOk(path) ==
    LET segs == Split(PathChars(path)) IN
    \A i \in 1..Len(segs) : SegmentOk(segs[i])

\* The path check of a reservation: the segment grammar, and the root path
\* for an admin.
PathOk(actor, path) ==
    SegmentGrammarOk(path) \/ (path = RootPath /\ IsAdmin(actor))

(***************************************************************************)
(* The three ways a handler leaves its first phase                         *)
(***************************************************************************)
\* A server that never serialises the operations on a mnemonic.
LockedNever(m) == FALSE

\* A worker holds the mnemonic it is about to write until its batch is done.
Locked(m) == \E w \in Workers : pc[w] = "commit" /\ req[w].target = m

\* The handler rejects the message: a problem-report and no write.
Fail(w, msg, code) ==
    /\ pc'   = [pc EXCEPT ![w] = "respond"]
    /\ req'  = [req EXCEPT ![w] = [msg |-> msg, target |-> Null, attempt |-> 0]]
    /\ resp' = [resp EXCEPT ![w] = ProblemReport(msg, code)]
    /\ UNCHANGED <<ui, form, backend, acl, store, batch, confirms, gone>>

\* The handler answers from what it read: a response and no write.
Reply(w, msg, r) ==
    /\ pc'   = [pc EXCEPT ![w] = "respond"]
    /\ req'  = [req EXCEPT ![w] = [msg |-> msg, target |-> Null, attempt |-> 0]]
    /\ resp' = [resp EXCEPT ![w] = r]
    /\ UNCHANGED <<ui, form, backend, acl, store, batch, confirms, gone>>

\* The handler hands a batch to the storage backend; r is the response it
\* sends once the batch is committed.
Start(w, msg, m, ops, r) ==
    /\ pc'    = [pc EXCEPT ![w] = "commit"]
    /\ req'   = [req EXCEPT ![w] = [msg |-> msg, target |-> m, attempt |-> 0]]
    /\ batch' = [batch EXCEPT ![w] = ops]
    /\ resp'  = [resp EXCEPT ![w] = r]
    /\ UNCHANGED <<ui, form, backend, acl, store, confirms, gone>>

(***************************************************************************)
(* The handlers: server processing of each inbound message type            *)
(***************************************************************************)
\* did/request: ACL, DID-count quota, path validity and availability (or a
\* generated mnemonic), then the record and its owner-index entry in one
\* batch.
DidRequest(w, msg) ==
    /\ pc[w] = "idle"
    /\ msg.type = "did/request"
    /\ msg.path # Null => ~Locked(msg.path)
    /\ IF ~HasAcl(msg.from) THEN Fail(w, msg, Unauthorized)
       ELSE IF ~checkDidCountQuota(msg.from, Cardinality(OwnedBy(msg.from)))
            THEN Fail(w, msg, QuotaExceeded)
       ELSE IF msg.path # Null /\ ~PathOk(msg.from, msg.path)
            THEN Fail(w, msg, PathInvalid)
       ELSE IF msg.path # Null /\ Exists(DidKey(msg.path))
            THEN Fail(w, msg, PathUnavailable)
       ELSE \E m \in (IF msg.path # Null THEN {msg.path} ELSE Mnemonics) :
            /\ IF msg.path # Null THEN m = msg.path
               ELSE ~Exists(DidKey(m)) /\ ~Locked(m)
            /\ Start(w, msg, m,
                     {PutOp(DidKey(m), DidRecord(msg.from, 0, Null, 0)),
                      PutOp(OwnerKey(msg.from, m), TRUE)},
                     [Response("did/offer", msg) EXCEPT !.mnemonic = m])

\* did/publish: ownership, parse and validate the whole log, size quota,
\* then log, record and statistics in one batch.
DidPublish(w, msg) ==
    /\ pc[w] = "idle"
    /\ msg.type = "did/publish"
    /\ ~Locked(msg.mnemonic)
    /\ LET m == msg.mnemonic
           p == parse(msg.did_log)
       IN
       IF ~HasAcl(msg.from) THEN Fail(w, msg, Unauthorized)
       ELSE IF ~Exists(DidKey(m)) THEN Fail(w, msg, MnemonicNotFound)
       ELSE LET rec == store[DidKey(m)] IN
       IF ~authorize(msg.from, rec.owner) THEN Fail(w, msg, Unauthorized)
       ELSE IF ~p.ok THEN Fail(w, msg, InvalidLogCode)
       ELSE IF validateChain(p.entries) = InvalidLog THEN Fail(w, msg, InvalidLogCode)
       ELSE IF validateChain(p.entries) = ProofInvalid THEN Fail(w, msg, ProofInvalidCode)
       ELSE IF ~checkSizeQuota(msg.from, TotalSizeExcept(rec.owner, m),
                               ContentSize(msg.did_log))
            THEN Fail(w, msg, SizeExceeded)
       ELSE LET did  == ExtractDidId(p.entries)
                st   == StatsOf(m)
                rec2 == DidRecord(rec.owner, rec.version_count + 1, did,
                                  ContentSize(msg.did_log))
            IN
            /\ rec.version_count < MaxVersions
            /\ st.total_updates < MaxVersions
            /\ Start(w, msg, m,
                     {PutOp(LogKey(m), msg.did_log),
                      PutOp(DidKey(m), rec2),
                      PutOp(StatsKey(m), Stats(st.total_resolves, st.total_updates + 1))},
                     [Response("did/confirm", msg) EXCEPT
                        !.mnemonic = m, !.did_id = did,
                        !.version_id = LatestVersionId(p.entries),
                        !.version_count = rec2.version_count])

\* A witness handler that counts the witness as one more update of the DID.
WitnessPublishCounted(w, msg) ==
    /\ pc[w] = "idle"
    /\ msg.type = "did/witness-publish"
    /\ ~Locked(msg.mnemonic)
    /\ LET m == msg.mnemonic IN
       IF ~HasAcl(msg.from) THEN Fail(w, msg, Unauthorized)
       ELSE IF ~Exists(DidKey(m)) THEN Fail(w, msg, MnemonicNotFound)
       ELSE IF ~authorize(msg.from, store[DidKey(m)].owner) THEN Fail(w, msg, Unauthorized)
       ELSE IF store[DidKey(m)].did_id = Null THEN Fail(w, msg, NotPublished)
       ELSE IF msg.witness = "" THEN Fail(w, msg, WitnessInvalid)
       ELSE Start(w, msg, m,
                  {PutOp(WitnessKey(m), msg.witness),
                   PutOp(StatsKey(m), Stats(StatsOf(m).total_resolves,
                                            StatsOf(m).total_updates + 1))},
                  [Response("did/witness-confirm", msg) EXCEPT !.mnemonic = m])

\* did/witness-publish: ownership, a published log, a non-empty witness,
\* then the witness file alone.
WitnessPublish(w, msg) ==
    /\ pc[w] = "idle"
    /\ msg.type = "did/witness-publish"
    /\ ~Locked(msg.mnemonic)
    /\ LET m == msg.mnemonic IN
       IF ~HasAcl(msg.from) THEN Fail(w, msg, Unauthorized)
       ELSE IF ~Exists(DidKey(m)) THEN Fail(w, msg, MnemonicNotFound)
       ELSE IF ~authorize(msg.from, store[DidKey(m)].owner) THEN Fail(w, msg, Unauthorized)
       ELSE IF store[DidKey(m)].did_id = Null THEN Fail(w, msg, NotPublished)
       ELSE IF msg.witness = "" THEN Fail(w, msg, WitnessInvalid)
       ELSE Start(w, msg, m, {PutOp(WitnessKey(m), msg.witness)},
                  [Response("did/witness-confirm", msg) EXCEPT !.mnemonic = m])

\* An info handler that refuses a mnemonic whose log is not published.
DidInfoRequestPublishedOnly(w, msg) ==
    /\ pc[w] = "idle"
    /\ msg.type = "did/info-request"
    /\ LET m == msg.mnemonic IN
       IF ~HasAcl(msg.from) THEN Fail(w, msg, Unauthorized)
       ELSE IF ~Exists(DidKey(m)) THEN Fail(w, msg, MnemonicNotFound)
       ELSE LET rec == store[DidKey(m)] IN
       IF ~authorize(msg.from, rec.owner) THEN Fail(w, msg, Unauthorized)
       ELSE IF ~Exists(LogKey(m)) THEN Fail(w, msg, NotPublished)
       ELSE Reply(w, msg,
                  [Response("did/info", msg) EXCEPT
                     !.mnemonic = m, !.did_id = rec.did_id, !.owner = rec.owner,
                     !.version_count = rec.version_count,
                     !.has_log = TRUE, !.stats = StatsOf(m)])

\* did/info-request: ownership, then the record, its statistics and, when a
\* log exists, its metadata.
DidInfoRequest(w, msg) ==
    /\ pc[w] = "idle"
    /\ msg.type = "did/info-request"
    /\ LET m == msg.mnemonic IN
       IF ~HasAcl(msg.from) THEN Fail(w, msg, Unauthorized)
       ELSE IF ~Exists(DidKey(m)) THEN Fail(w, msg, MnemonicNotFound)
       ELSE LET rec == store[DidKey(m)] IN
       IF ~authorize(msg.from, rec.owner) THEN Fail(w, msg, Unauthorized)
       ELSE Reply(w, msg,
                  [Response("did/info", msg) EXCEPT
                     !.mnemonic = m, !.did_id = rec.did_id, !.owner = rec.owner,
                     !.version_count = rec.version_count,
                     !.has_log = Exists(LogKey(m)), !.stats = StatsOf(m)])

\* One entry of a did/list response: the record and statistics of a DID of
\* the owner index (a missing record shows as version_count -1).
DidSummary(m) ==
    IF Exists(DidKey(m))
    THEN [mnemonic |-> m, did_id |-> store[DidKey(m)].did_id,
          version_count |-> store[DidKey(m)].version_count,
          total_resolves |-> StatsOf(m).total_resolves]
    ELSE [mnemonic |-> m, did_id |-> Null, version_count |-> 0 - 1,
          total_resolves |-> StatsOf(m).total_resolves]

\* A target that honours the owner field of any sender.
ListTargetAnySender(msg) ==
    IF msg.owner # Null THEN msg.owner ELSE msg.from

\* The owner whose DIDs a did/list-request lists.
ListTarget(msg) ==
    IF IsAdmin(msg.from) /\ msg.owner # Null THEN msg.owner ELSE msg.from

\* did/list-request: the target owner's DIDs, through the owner index.
DidListRequest(w, msg) ==
    /\ pc[w] = "idle"
    /\ msg.type = "did/list-request"
    /\ IF ~HasAcl(msg.from) THEN Fail(w, msg, Unauthorized)
       ELSE Reply(w, msg,
                  [Response("did/list", msg) EXCEPT
                     !.dids = {DidSummary(m) : m \in OwnedBy(ListTarget(msg))}])

\* A delete handler that refuses a mnemonic whose log is not published.
DidDeletePublishedOnly(w, msg) ==
    /\ pc[w] = "idle"
    /\ msg.type = "did/delete"
    /\ ~Locked(msg.mnemonic)
    /\ LET m == msg.mnemonic IN
       IF ~HasAcl(msg.from) THEN Fail(w, msg, Unauthorized)
       ELSE IF ~Exists(DidKey(m)) THEN Fail(w, msg, MnemonicNotFound)
       ELSE LET rec == store[DidKey(m)] IN
       IF ~authorize(msg.from, rec.owner) THEN Fail(w, msg, Unauthorized)
       ELSE IF rec.did_id = Null THEN Fail(w, msg, NotPublished)
       ELSE Start(w, msg, m,
                  {DelOp(DidKey(m)), DelOp(LogKey(m)), DelOp(WitnessKey(m)),
                   DelOp(OwnerKey(rec.owner, m)), DelOp(StatsKey(m))},
                  [Response("did/delete-confirm", msg) EXCEPT
                     !.mnemonic = m, !.did_id = rec.did_id])

\* did/delete: ownership, then record, log, witness, owner-index entry and
\* statistics in one batch.
DidDelete(w, msg) ==
    /\ pc[w] = "idle"
    /\ msg.type = "did/delete"
    /\ ~Locked(msg.mnemonic)
    /\ LET m == msg.mnemonic IN
       IF ~HasAcl(msg.from) THEN Fail(w, msg, Unauthorized)
       ELSE IF ~Exists(DidKey(m)) THEN Fail(w, msg, MnemonicNotFound)
       ELSE LET rec == store[DidKey(m)] IN
       IF ~authorize(msg.from, rec.owner) THEN Fail(w, msg, Unauthorized)
       ELSE Start(w, msg, m,
                  {DelOp(DidKey(m)), DelOp(LogKey(m)), DelOp(WitnessKey(m)),
                   DelOp(OwnerKey(rec.owner, m)), DelOp(StatsKey(m))},
                  [Response("did/delete-confirm", msg) EXCEPT
                     !.mnemonic = m, !.did_id = rec.did_id])

(***************************************************************************)
(* The storage backend commits the batch                                   *)
(***************************************************************************)
\* The did/confirm count after a step of worker w that leaves the store as
\* s2; done says that the step completes the batch of w.
ConfirmsAfter(w, s2, done) ==
    [m \in Mnemonics |->
        IF DidKey(m) \notin DOMAIN s2 THEN 0
        ELSE IF s2[DidKey(m)].version_count = 0 THEN 0
        ELSE IF done /\ resp[w].type = "did/confirm" /\ req[w].target = m
             THEN confirms[m] + 1
        ELSE confirms[m]]

\* The deleted mnemonics after a step that leaves the store as s2.
GoneAfter(s2) ==
    {m \in Mnemonics :
        /\ DidKey(m) \notin DOMAIN s2
        /\ m \in gone \/ Exists(DidKey(m))}

\* fjall: the whole batch in one ACID transaction.
CommitAll(w) ==
    /\ pc[w] = "commit"
    /\ backend = "fjall"
    /\ store' = ApplyAll(store, batch[w])
    /\ confirms' = ConfirmsAfter(w, store', TRUE)
    /\ gone' = GoneAfter(store')
    /\ batch' = [batch EXCEPT ![w] = {}]
    /\ pc'    = [pc EXCEPT ![w] = "respond"]
    /\ UNCHANGED <<ui, form, backend, acl, req, resp>>

\* A cloud backend: best-effort, one write of the batch at a time.
CommitStep(w) ==
    /\ pc[w] = "commit"
    /\ backend = "cloud"
    /\ \E o \in batch[w] :
        /\ store' = Apply(store, o)
        /\ batch' = [batch EXCEPT ![w] = batch[w] \ {o}]
        /\ pc'    = [pc EXCEPT ![w] = IF batch[w] = {o} THEN "respond" ELSE "commit"]
        /\ confirms' = ConfirmsAfter(w, store', batch[w] = {o})
        /\ gone' = GoneAfter(store')
    /\ UNCHANGED <<ui, form, backend, acl, req, resp>>

\* A failure of the backend that escapes the router: no response is sent.
BatchFailEscapes(w) ==
    /\ pc[w] = "commit"
    /\ batch' = [batch EXCEPT ![w] = {}]
    /\ pc'    = [pc EXCEPT ![w] = "idle"]
    /\ req'   = [req EXCEPT ![w] = NoReq]
    /\ resp'  = [resp EXCEPT ![w] = NoResp]
    /\ UNCHANGED <<ui, form, backend, acl, store, confirms, gone>>

\* The backend fails (or the process dies) before the batch is complete:
\* the writes not yet applied are lost and the client gets internal-error.
BatchFail(w) ==
    /\ pc[w] = "commit"
    /\ batch' = [batch EXCEPT ![w] = {}]
    /\ pc'    = [pc EXCEPT ![w] = "respond"]
    /\ resp'  = [resp EXCEPT ![w] = ProblemReport(req[w].msg, InternalError)]
    /\ UNCHANGED <<ui, form, backend, acl, store, req, confirms, gone>>

\* A storage boundary that retries a failed write without counting.
RetryBatchUnbounded(w) ==
    /\ pc[w] = "commit"
    /\ backend = "cloud"
    /\ req[w].attempt <= MaxRetries
    /\ req' = [req EXCEPT ![w].attempt = req[w].attempt + 1]
    /\ UNCHANGED <<ui, form, backend, acl, store, pc, batch, resp, confirms, gone>>

\* A transient failure of a cloud backend: the write that failed is tried
\* again, a bounded number of times.
RetryBatch(w) ==
    /\ pc[w] = "commit"
    /\ backend = "cloud"
    /\ req[w].attempt < MaxRetries
    /\ req' = [req EXCEPT ![w].attempt = req[w].attempt + 1]
    /\ UNCHANGED <<ui, form, backend, acl, store, pc, batch, resp, confirms, gone>>

\* The write fails once more after the last retry: internal-error.
RetriesExhausted(w) ==
    /\ req[w].attempt = MaxRetries
    /\ BatchFail(w)

\* The router sends the response and the worker is free again.
Send(w) ==
    /\ pc[w] = "respond"
    /\ pc'   = [pc EXCEPT ![w] = "idle"]
    /\ req'  = [req EXCEPT ![w] = NoReq]
    /\ resp' = [resp EXCEPT ![w] = NoResp]
    /\ UNCHANGED <<ui, form, backend, acl, store, batch, confirms, gone>>

\* GET /{mnemonic}/did.jsonl: the public resolution of a published log. It
\* needs no session, is counted in the mnemonic's Stats, and waits for a
\* batch in flight on the mnemonic like the mutating operations do.
Resolve(m) ==
    /\ Exists(LogKey(m))
    /\ ~Locked(m)
    /\ StatsOf(m).total_resolves < MaxResolves
    /\ store' = Apply(store, PutOp(StatsKey(m),
                    Stats(StatsOf(m).total_resolves + 1, StatsOf(m).total_updates)))
    /\ UNCHANGED <<ui, form, backend, acl, pc, req, batch, resp, confirms, gone>>

\* An ACL update that purges what the account holds beyond its new limits.
createAclPurging(a, cnt, size) ==
    /\ acl' = [acl EXCEPT ![a] = AclEntry("owner", cnt, size)]
    /\ store' = IF cnt # NoOverride /\ Cardinality(OwnedBy(a)) > cnt
                THEN [k \in {x \in DOMAIN store : \A m \in OwnedBy(a) :
                                x \notin {DidKey(m), LogKey(m), WitnessKey(m),
                                          OwnerKey(a, m), StatsKey(m)}} |-> store[k]]
                ELSE store
    /\ UNCHANGED <<ui, form, backend, pc, req, batch, resp, confirms, gone>>

\* POST /acl (or add-acl): an admin writes the AclEntry of an account, with
\* or without per-account overrides of the two limits. Only the entry is
\* written.
createAcl(a, cnt, size) ==
    /\ acl' = [acl EXCEPT ![a] = AclEntry("owner", cnt, size)]
    /\ UNCHANGED <<ui, form, backend, store, pc, req, batch, resp, confirms, gone>>

(***************************************************************************)
(* The UI: API client and AuthProvider                                     *)
(***************************************************************************)
MaxRequests == 3            \* requests the UI sends in an explored run

UiTokens == {"tokA", "tokB"}

\* stored is localStorage["webvh_token"], token the AuthProvider's state.
UiInit(saved) ==
    [stored |-> saved, token |-> Null, mounted |-> FALSE, sent |-> 0, inflight |-> {}]

getToken == ui.stored

\* !!token
isAuthenticated == ui.token # Null /\ ui.token # ""

ServerVars == <<backend, acl, store, pc, req, batch, resp, confirms, gone>>

\* AuthProvider's effect: the saved token becomes the state and the
\* webvh:unauthorized listener is registered.
Mount ==
    /\ ~ui.mounted
    /\ ui' = [ui EXCEPT !.mounted = TRUE,
                        !.token = IF getToken # Null /\ getToken # ""
                                  THEN getToken ELSE ui.token]
    /\ UNCHANGED <<ServerVars, form>>

\* A login that only sets the provider's state.
loginStateOnly(t) ==
    /\ ui.mounted
    /\ ui' = [ui EXCEPT !.token = t]
    /\ UNCHANGED <<ServerVars, form>>

\* login: storeToken(t); setTokenState(t).
login(t) ==
    /\ ui.mounted
    /\ ui' = [ui EXCEPT !.stored = t, !.token = t]
    /\ UNCHANGED <<ServerVars, form>>

\* logout: clearToken(); setTokenState(null).
logout ==
    /\ ui.mounted
    /\ ui' = [ui EXCEPT !.stored = Null, !.token = Null]
    /\ UNCHANGED <<ServerVars, form>>

\* request, up to the fetch: the Authorization header carries the token
\* that is stored now.
RequestSend ==
    /\ ui.sent < MaxRequests
    /\ ui' = [ui EXCEPT !.sent = ui.sent + 1,
                        !.inflight = ui.inflight \cup
                                     {[id |-> ui.sent + 1, token |-> getToken]}]
    /\ UNCHANGED <<ServerVars, form>>

\* request, after the fetch: a 401 clears the stored token and dispatches
\* webvh:unauthorized, whose listener (once registered) clears the state.
RequestResponse(r, status) ==
    /\ r \in ui.inflight
    /\ ui' = IF status = 401
             THEN [ui EXCEPT !.inflight = ui.inflight \ {r},
                             !.stored = Null,
                             !.token = IF ui.mounted THEN Null ELSE ui.token]
             ELSE [ui EXCEPT !.inflight = ui.inflight \ {r}]
    /\ UNCHANGED <<ServerVars, form>>

Statuses == {200, 204, 401, 500}

(***************************************************************************)
(* The UI: the DID creation form of the DID list                           *)
(***************************************************************************)
FormInit ==
    [customPath |-> "", pathStatus |-> Null, timer |-> Null, checks |-> {},
     statusOf |-> Null]

Inputs == {"", "a", "ab", "ab ", "cd"}

\* customPath.trim() of the explored inputs.
trim(p) == IF p = "ab " THEN "ab" ELSE p

\* The debounce effect, run when customPath has become p.
EffectOf(p) ==
    IF Len(trim(p)) < 2
    THEN [form EXCEPT !.customPath = p, !.timer = Null, !.pathStatus = Null,
                      !.statusOf = Null]
    ELSE [form EXCEPT !.customPath = p, !.timer = trim(p), !.pathStatus = "checking",
                      !.statusOf = Null]

\* onChangeText={setCustomPath}, followed by the effect.
setCustomPath(p) ==
    /\ p # form.customPath
    /\ form' = EffectOf(p)
    /\ UNCHANGED <<ServerVars, ui>>

\* resetForm: the input is emptied and the status cleared; the effect runs
\* when the input was not empty.
resetForm ==
    /\ form' = IF form.customPath # "" THEN EffectOf("")
               ELSE [form EXCEPT !.pathStatus = Null, !.statusOf = Null]
    /\ UNCHANGED <<ServerVars, ui>>

\* The 400 ms timer fires: api.checkName(trimmed) is sent.
TimerFires ==
    /\ form.timer # Null
    /\ form' = [form EXCEPT !.timer = Null, !.checks = form.checks \cup {form.timer}]
    /\ UNCHANGED <<ServerVars, ui>>

\* The promise of a checkName settles: available, taken or error.
CheckSettles(c, result) ==
    /\ c \in form.checks
    /\ form' = [form EXCEPT !.checks = form.checks \ {c}, !.pathStatus = result,
                            !.statusOf = c]
    /\ UNCHANGED <<ServerVars, ui>>

(***************************************************************************)
(* The messages of the explored runs                                       *)
(***************************************************************************)
Paths == Mnemonics \cup {Null}
Members == {"alice", "bob", "root"}      \* the actors of the ACL
Outsider == "eve"                        \* an actor without an AclEntry

RequestMsgs == {RequestMsg("urn:1", a, p) : a \in Actors, p \in Paths}
PublishMsgs ==
    {PublishMsg("urn:1", a, m, l) : a \in Members, m \in Mnemonics, l \in ValidLogs}
    \cup {PublishMsg("urn:1", "alice", "m1", l) : l \in InvalidLogs}
    \cup {PublishMsg("urn:1", Outsider, "m1", LogA1)}
WitnessMsgs ==
    {WitnessMsg("urn:1", a, m, x) : a \in Members, m \in Mnemonics, x \in Witnesses}
    \cup {WitnessMsg("urn:1", "alice", "m1", ""), WitnessMsg("urn:1", Outsider, "m1", "wit1")}
InfoMsgs    == {InfoMsg("urn:1", a, m) : a \in Actors, m \in Mnemonics}
ListMsgs    == {ListMsg("urn:1", a, o) : a \in Actors, o \in {Null, "alice", "bob"}}
DeleteMsgs  == {DeleteMsg("urn:1", a, m) : a \in Actors, m \in Mnemonics}

(***************************************************************************)
(* Specification: the fjall build, one request at a time                   *)
(***************************************************************************)
InitWith(b) ==
    /\ backend = b
    /\ acl = InitialAcl
    /\ store = <<>>
    /\ pc = [w \in Workers |-> "idle"]
    /\ req = [w \in Workers |-> NoReq]
    /\ batch = [w \in Workers |-> {}]
    /\ resp = [w \in Workers |-> NoResp]
    /\ confirms = [m \in Mnemonics |-> 0]
    /\ gone = {}
    /\ ui = UiInit(Null)
    /\ form = FormInit

Init == InitWith("fjall")

Next ==
    \/ \E msg \in RequestMsgs : DidRequest("w1", msg)
    \/ \E msg \in PublishMsgs : DidPublish("w1", msg)
    \/ \E msg \in WitnessMsgs : WitnessPublish("w1", msg)
    \/ \E msg \in InfoMsgs : DidInfoRequest("w1", msg)
    \/ \E msg \in ListMsgs : DidListRequest("w1", msg)
    \/ \E msg \in DeleteMsgs : DidDelete("w1", msg)
    \/ CommitAll("w1")
    \/ BatchFail("w1")
    \/ Send("w1")

Spec == Init /\ [][Next]_vars

(***************************************************************************)
(* Specification: a cloud build, one request at a time, one mnemonic       *)
(***************************************************************************)
OnM1(msgs) == {x \in msgs : x.mnemonic = "m1"}

InitCloud == InitWith("cloud")

NextCloud ==
    \/ \E msg \in {x \in RequestMsgs : x.path = "m1"} : DidRequest("w1", msg)
    \/ \E msg \in OnM1(PublishMsgs) : DidPublish("w1", msg)
    \/ \E msg \in OnM1(WitnessMsgs) : WitnessPublish("w1", msg)
    \/ \E msg \in OnM1(InfoMsgs) : DidInfoRequest("w1", msg)
    \/ \E msg \in ListMsgs : DidListRequest("w1", msg)
    \/ \E msg \in OnM1(DeleteMsgs) : DidDelete("w1", msg)
    \/ CommitStep("w1")
    \/ BatchFail("w1")
    \/ Send("w1")

SpecCloud == InitCloud /\ [][NextCloud]_vars

(***************************************************************************)
(* Specification: the fjall build, publishes of well- and ill-formed text   *)
(***************************************************************************)
MaxRawLen == 3              \* the longest JSONL text that is submitted

RawLines ==
    {Line(E1A), Line(E2A), EmptyLine, GarbageLine}
    \cup {LineMissing(E1A, f) : f \in RequiredFields}

\* The texts of up to MaxRawLen lines with at most one line that lacks a
\* required field.
RawLogs ==
    UNION {{l \in [1..k -> RawLines] :
               Cardinality({i \in 1..k : l[i].kind = "json" /\ l[i].has # RequiredFields}) <= 1} :
           k \in 1..MaxRawLen}

RawMsgs == {PublishMsg("urn:1", "root", "m1", l) : l \in RawLogs}

NextParse ==
    \/ DidRequest("w1", RequestMsg("urn:1", "root", "m1"))
    \/ \E msg \in RawMsgs : DidPublish("w1", msg)
    \/ CommitAll("w1")
    \/ BatchFail("w1")
    \/ Send("w1")

SpecParse == Init /\ [][NextParse]_vars

(***************************************************************************)
(* Specification: the fjall build, an account whose limits are rewritten   *)
(***************************************************************************)
AclMsgs ==
    {RequestMsg("urn:1", "alice", p) : p \in Mnemonics}
    \cup {PublishMsg("urn:1", "alice", "m1", l) : l \in {LogA1, LogA2}}
    \cup {InfoMsg("urn:1", "alice", "m1")}

Overrides(default) == {NoOverride} \cup (0..default)

NextAcl ==
    \/ \E msg \in AclMsgs : DidRequest("w1", msg)
    \/ \E msg \in AclMsgs : DidPublish("w1", msg)
    \/ \E msg \in AclMsgs : DidInfoRequest("w1", msg)
    \/ \E cnt \in Overrides(DefaultMaxDidCount + 1), size \in Overrides(DefaultMaxTotalSize) :
          createAcl("alice", cnt, size)
    \/ CommitAll("w1")
    \/ BatchFail("w1")
    \/ Send("w1")

SpecAcl == Init /\ [][NextAcl]_vars

(***************************************************************************)
(* Specification: the fjall build, reservations of custom paths            *)
(***************************************************************************)
CustomPaths ==
    {"m1", "a", "Ab", "ab/c-9", "ab//cd", "ab/c", "a_b", RootPath, Seg63, Seg64}

PathMsgs ==
    {RequestMsg("urn:1", a, p) : a \in {"alice", "root", Outsider}, p \in CustomPaths}
    \cup {DeleteMsg("urn:1", a, p) : a \in {"alice", "root"}, p \in CustomPaths}

NextPath ==
    \/ \E msg \in PathMsgs : DidRequest("w1", msg)
    \/ \E msg \in PathMsgs : DidDelete("w1", msg)
    \/ CommitAll("w1")
    \/ BatchFail("w1")
    \/ Send("w1")

SpecPath == Init /\ [][NextPath]_vars

(***************************************************************************)
(* Specification: a cloud build whose writes fail transiently              *)
(***************************************************************************)
RetryMsgs ==
    {RequestMsg("urn:1", "alice", "m1"), DeleteMsg("urn:1", "alice", "m1")}
    \cup {PublishMsg("urn:1", "alice", "m1", l) : l \in {LogA1, LogA2, LogGap, LogSig}}

NextRetry ==
    \/ \E msg \in RetryMsgs : DidRequest("w1", msg)
    \/ \E msg \in RetryMsgs : DidPublish("w1", msg)
    \/ \E msg \in RetryMsgs : DidDelete("w1", msg)
    \/ CommitStep("w1")
    \/ RetryBatch("w1")
    \/ RetriesExhausted("w1")
    \/ Send("w1")

\* A write handed to the backend eventually lands or fails, and a prepared
\* response is eventually sent.
SpecRetry ==
    /\ InitCloud
    /\ [][NextRetry]_vars
    /\ WF_vars(CommitStep("w1") \/ RetryBatch("w1") \/ RetriesExhausted("w1"))
    /\ WF_vars(Send("w1"))

(***************************************************************************)
(* Specification: the UI's session, with a saved token or without          *)
(***************************************************************************)
InitUi ==
    /\ backend = "fjall"
    /\ acl = InitialAcl
    /\ store = <<>>
    /\ pc = [w \in Workers |-> "idle"]
    /\ req = [w \in Workers |-> NoReq]
    /\ batch = [w \in Workers |-> {}]
    /\ resp = [w \in Workers |-> NoResp]
    /\ confirms = [m \in Mnemonics |-> 0]
    /\ gone = {}
    /\ \E saved \in UiTokens \cup {Null} : ui = UiInit(saved)
    /\ form = FormInit

NextUi ==
    \/ Mount
    \/ \E t \in UiTokens : login(t)
    \/ logout
    \/ RequestSend
    \/ \E r \in ui.inflight, status \in Statuses : RequestResponse(r, status)

SpecUi == InitUi /\ [][NextUi]_vars

(***************************************************************************)
(* Specification: the UI's DID creation form                               *)
(***************************************************************************)
NextForm ==
    \/ \E p \in Inputs : setCustomPath(p)
    \/ resetForm
    \/ TimerFires
    \/ \E c \in form.checks, result \in {"available", "taken", "error"} :
          CheckSettles(c, result)

SpecForm == InitUi /\ [][NextForm]_vars

(***************************************************************************)
(* Specification: either build, the life of one DID and its resolutions    *)
(***************************************************************************)
ResolveMsgs ==
    {RequestMsg("urn:1", "alice", "m1"), DeleteMsg("urn:1", "alice", "m1"),
     InfoMsg("urn:1", "alice", "m1")}
    \cup {PublishMsg("urn:1", "alice", "m1", l) : l \in {LogA1, LogA2}}

NextResolve ==
    \/ \E msg \in ResolveMsgs : DidRequest("w1", msg)
    \/ \E msg \in ResolveMsgs : DidPublish("w1", msg)
    \/ \E msg \in ResolveMsgs : DidInfoRequest("w1", msg)
    \/ \E msg \in ResolveMsgs : DidDelete("w1", msg)
    \/ Resolve("m1")
    \/ CommitAll("w1")
    \/ CommitStep("w1")
    \/ BatchFail("w1")
    \/ Send("w1")

InitAny == \E b \in Backends : InitWith(b)

SpecResolve == InitAny /\ [][NextResolve]_vars

(***************************************************************************)
(* Specification: the fjall build, two requests at a time, one mnemonic    *)
(***************************************************************************)
\* The id of the message a worker handles: two messages in flight never
\* share an id.
MsgIdOf(w) == IF w = "w1" THEN "urn:1" ELSE "urn:2"

Owners == {"alice", "bob"}

\* The messages about mnemonic m1 that the two owners send, under id.
ConcMsgs(id) ==
    {RequestMsg(id, a, "m1") : a \in Owners}
    \cup {PublishMsg(id, a, "m1", l) : a \in Owners, l \in {LogA1, LogA2}}
    \cup {PublishMsg(id, "alice", "m1", LogGap)}
    \cup {WitnessMsg(id, a, "m1", "wit1") : a \in Owners}
    \cup {InfoMsg(id, a, "m1") : a \in Owners}
    \cup {ListMsg(id, a, o) : a \in Owners, o \in {Null, "alice"}}
    \cup {DeleteMsg(id, a, "m1") : a \in Owners}

NextConc ==
    \E w \in Workers :
        \/ \E msg \in ConcMsgs(MsgIdOf(w)) : DidRequest(w, msg)
        \/ \E msg \in ConcMsgs(MsgIdOf(w)) : DidPublish(w, msg)
        \/ \E msg \in ConcMsgs(MsgIdOf(w)) : WitnessPublish(w, msg)
        \/ \E msg \in ConcMsgs(MsgIdOf(w)) : DidInfoRequest(w, msg)
        \/ \E msg \in ConcMsgs(MsgIdOf(w)) : DidListRequest(w, msg)
        \/ \E msg \in ConcMsgs(MsgIdOf(w)) : DidDelete(w, msg)
        \/ CommitAll(w)
        \/ BatchFail(w)
        \/ Send(w)

SpecConc == Init /\ [][NextConc]_vars

\* The same, where a batch handed to the backend is eventually committed or
\* failed and a prepared response is eventually sent.
SpecConcLive ==
    /\ SpecConc
    /\ \A w \in Workers : WF_vars(CommitAll(w) \/ BatchFail(w))
    /\ \A w \in Workers : WF_vars(Send(w))

(***************************************************************************)
(* Specification: the fjall build, two reservations at a time              *)
(***************************************************************************)
\* The reservations and deletes the two owners send, under id: a custom
\* path or none, on either mnemonic.
QuotaMsgs(id) ==
    {RequestMsg(id, a, p) : a \in Owners, p \in Mnemonics \cup {Null}}
    \cup {DeleteMsg(id, a, m) : a \in Owners, m \in Mnemonics}

NextQuota ==
    \E w \in Workers :
        \/ \E msg \in QuotaMsgs(MsgIdOf(w)) : DidRequest(w, msg)
        \/ \E msg \in QuotaMsgs(MsgIdOf(w)) : DidDelete(w, msg)
        \/ CommitAll(w)
        \/ BatchFail(w)
        \/ Send(w)

SpecQuota == Init /\ [][NextQuota]_vars

(***************************************************************************)
(* Specification: a cloud build, a delete racing a publish of one mnemonic *)
(***************************************************************************)
\* alice reserves m1, publishes to it, attaches a witness file and deletes
\* it, two requests at a time.
RaceMsgs(id) ==
    {RequestMsg(id, "alice", "m1"),
     PublishMsg(id, "alice", "m1", LogA1),
     WitnessMsg(id, "alice", "m1", "wit1"),
     DeleteMsg(id, "alice", "m1")}

NextRace ==
    \E w \in Workers :
        \/ \E msg \in RaceMsgs(MsgIdOf(w)) : DidRequest(w, msg)
        \/ \E msg \in RaceMsgs(MsgIdOf(w)) : DidPublish(w, msg)
        \/ \E msg \in RaceMsgs(MsgIdOf(w)) : WitnessPublish(w, msg)
        \/ \E msg \in RaceMsgs(MsgIdOf(w)) : DidDelete(w, msg)
        \/ CommitStep(w)
        \/ BatchFail(w)
        \/ Send(w)

SpecRace == InitCloud /\ [][NextRace]_vars

(***************************************************************************)
(* Specification: a cloud build that never fails, a writer and a reader    *)
(***************************************************************************)
\* alice reserves, publishes to and deletes m1 through worker w1 ...
WriterMsgs ==
    {RequestMsg("urn:1", "alice", "m1"), DeleteMsg("urn:1", "alice", "m1")}
    \cup {PublishMsg("urn:1", "alice", "m1", l) : l \in {LogA1, LogA2}}

\* ... while she reads m1 and her list through worker w2.
ReaderMsgs == {InfoMsg("urn:2", "alice", "m1"), ListMsg("urn:2", "alice", Null)}

NextConcCloud ==
    \/ \E msg \in WriterMsgs : DidRequest("w1", msg)
    \/ \E msg \in WriterMsgs : DidPublish("w1", msg)
    \/ \E msg \in WriterMsgs : DidDelete("w1", msg)
    \/ \E msg \in ReaderMsgs : DidInfoRequest("w2", msg)
    \/ \E msg \in ReaderMsgs : DidListRequest("w2", msg)
    \/ CommitStep("w1")
    \/ \E w \in Workers : Send(w)

SpecConcCloud == InitCloud /\ [][NextConcCloud]_vars

(***************************************************************************)
(* Specification: the fjall build behind the transport endpoint            *)
(***************************************************************************)
\* The specifications above start from messages that passed the endpoint;
\* this one starts from the transport request: a message under a Bearer token.
Tokens == {"tok-alice", "tok-bob", "tok-stale"}

\* The DID of the session a Bearer token belongs to; Null for a token that
\* belongs to no session (absent, forged or expired).
SessionDid(token) ==
    CASE token = "tok-alice" -> "alice"
      [] token = "tok-bob"   -> "bob"
      [] OTHER               -> Null

\* A transport request: the message and the Bearer token of its header.
Envelope(token, msg) == [bearer |-> token] @@ msg

\* A session test that does not compare the session's DID with from.
SessionOkAnySession(token, from) == SessionDid(token) # Null

\* The Bearer token ties the message to a session, and the from field is
\* the DID of that session.
SessionOk(token, from) == SessionDid(token) # Null /\ SessionDid(token) = from

\* The endpoint refuses the request with HTTP 401; no handler runs.
RejectUnauthenticated(w, msg) ==
    /\ pc[w] = "idle"
    /\ Reply(w, msg, [Response("http/401", msg) EXCEPT !.thid = Null])

\* The handler of the message's type.
Dispatch(w, msg) ==
    \/ DidRequest(w, msg)
    \/ DidPublish(w, msg)
    \/ WitnessPublish(w, msg)
    \/ DidInfoRequest(w, msg)
    \/ DidListRequest(w, msg)
    \/ DidDelete(w, msg)

\* POST /api/didcomm: the session check, then the handler.
Route(w, token, msg) ==
    IF SessionOk(token, msg.from)
    THEN Dispatch(w, Envelope(token, msg))
    ELSE RejectUnauthenticated(w, Envelope(token, msg))

NextSession ==
    \/ \E token \in Tokens, msg \in ConcMsgs("urn:1") : Route("w1", token, msg)
    \/ CommitAll("w1")
    \/ BatchFail("w1")
    \/ Send("w1")

SpecSession == Init /\ [][NextSession]_vars

(***************************************************************************)
(* Specification: the fjall build, logs of every shape published to m1     *)
(***************************************************************************)
MaxLogLen == 2              \* the longest log that is submitted

DidA == "did:webvh:A:host:p"
DidB == "did:webvh:B:host:p"

\* First entries: the right one under a right proof, a foreign signer and
\* an unknown cryptosuite; a wrong derived SCID under a right and a wrong
\* proof; a foreign state.id; and one with other keys.
GenesisEntries ==
    {Entry(1, "t1", "A", "A", "A", DidA, {K1}, y[1], y[2]) :
        y \in {<<K1, SupportedSuite>>, <<K2, SupportedSuite>>, <<K1, "other-suite">>}}
    \cup {Entry(1, "t1", "A", "A", "B", DidA, {K1}, signer, SupportedSuite) :
            signer \in {K1, K2}}
    \cup {Entry(1, "t1", "A", "A", "A", DidB, {K1}, K1, SupportedSuite),
          Entry(1, "t1", "A", "A", "A", DidA, {K2}, K2, SupportedSuite)}

\* Later entries: version 2 with every choice of updateKeys and signer or
\* with an unknown cryptosuite; version 3 after version 2 by either signer,
\* and version 3 hashed over version 1.
UpdateEntries ==
    {Entry(2, "t2", "t1", "A", "A", DidA, keys, signer, SupportedSuite) :
        keys \in {{K1}, {K2}}, signer \in {K1, K2}}
    \cup {Entry(2, "t2", "t1", "A", "A", DidA, {K1}, K1, "other-suite")}
    \cup {Entry(3, "t3", "t2", "A", "A", DidA, {K1}, signer, SupportedSuite) :
            signer \in {K1, K2}}
    \cup {Entry(3, "t3", "t1", "A", "A", DidA, {K1}, K1, SupportedSuite)}

ChainEntries == GenesisEntries \cup UpdateEntries

ChainLogs ==
    UNION {[1..k -> {Line(e) : e \in ChainEntries}] : k \in 1..MaxLogLen}

ChainMsgs == {PublishMsg("urn:1", "root", "m1", l) : l \in ChainLogs}

NextChain ==
    \/ DidRequest("w1", RequestMsg("urn:1", "root", "m1"))
    \/ \E msg \in ChainMsgs : DidPublish("w1", msg)
    \/ CommitAll("w1")
    \/ BatchFail("w1")
    \/ Send("w1")

SpecChain == Init /\ [][NextChain]_vars

(***************************************************************************)
(* Properties                                                              *)
(***************************************************************************)
\* Every key that belongs to mnemonic m.
KeysOfM(m) ==
    {DidKey(m), LogKey(m), WitnessKey(m), StatsKey(m)} \cup {OwnerKey(o, m) : o \in Actors}

Rec(m) == store[DidKey(m)]

\* C1: deletion is atomic.  A step that removes any key of a mnemonic
\* removes every key of that mnemonic (never a mix of removed and remaining
\* keys, also when the batch fails half way), and when a delete is confirmed
\* none of the keys of the mnemonic exists.
C1_DeleteAtomic ==
    [][ /\ \A m \in Mnemonics :
            LET before == KeysOfM(m) \cap DOMAIN store
                after  == KeysOfM(m) \cap DOMAIN store'
            IN (before \ after # {}) => after = {}
        /\ \A w \in Workers :
            (pc[w] = "commit" /\ pc'[w] = "respond"
                /\ resp'[w].type = "did/delete-confirm")
            => KeysOfM(resp'[w].mnemonic) \cap DOMAIN store' = {}
      ]_vars

\* C2: a record with version_count 0 has no did_id and a record with
\* version_count of one or more has a did_id.
C2_DidIdIffPublished ==
    \A m \in Mnemonics :
        Exists(DidKey(m)) =>
            /\ Rec(m).version_count = 0 => Rec(m).did_id = Null
            /\ Rec(m).version_count >= 1 => Rec(m).did_id # Null

\* A reserved record next to a record published twice (from a two-entry log).
C2_Witness ==
    \E m, n \in Mnemonics :
        /\ Exists(DidKey(m)) /\ Rec(m).version_count = 0 /\ Rec(m).did_id = Null
        /\ Exists(DidKey(n)) /\ Rec(n).version_count >= 2 /\ Rec(n).did_id # Null
        /\ Exists(LogKey(n)) /\ Len(store[LogKey(n)]) = 2

\* C3: once a record has a did_id, no step changes it while the record
\* exists, whatever log is published.
C3_DidIdImmutable ==
    [][ \A m \in Mnemonics :
            (Exists(DidKey(m)) /\ DidKey(m) \in DOMAIN store' /\ Rec(m).did_id # Null)
            => store'[DidKey(m)].did_id = Rec(m).did_id
      ]_vars

\* C4: publishes to a mnemonic are counted one by one.  Whenever no batch
\* is in flight on a mnemonic, the version_count of its record equals the
\* number of did/confirm responses since the record was created, and a
\* did/confirm carries the version_count the record then has.
C4_PublishCounted ==
    /\ \A m \in Mnemonics :
        (Exists(DidKey(m)) /\ ~Locked(m)) => Rec(m).version_count = confirms[m]
    /\ \A w \in Workers :
        (pc[w] = "respond" /\ resp[w].type = "did/confirm"
            /\ Exists(DidKey(resp[w].mnemonic)))
        => resp[w].version_count = Rec(resp[w].mnemonic).version_count

\* The DID-count limit in force for an actor: its override, else the default.
C5_Limit(a) ==
    IF acl[a].max_did_count # NoOverride THEN acl[a].max_did_count
    ELSE DefaultMaxDidCount

\* C5: a non-admin never holds more DIDs than its limit N, a did/request is
\* answered with quota-exceeded only to a non-admin that holds exactly N
\* (so the N reservations before it were accepted), such a rejection writes
\* nothing, and an admin is never rejected by the quota.
C5_QuotaBoundary ==
    /\ \A a \in Actors :
        acl[a].role = "owner" => Cardinality(OwnedBy(a)) <= C5_Limit(a)
    /\ \A w \in Workers :
        (pc[w] = "respond" /\ resp[w].code = QuotaExceeded)
        => /\ acl[resp[w].to].role = "owner"
           /\ req[w].msg.type = "did/request"
           /\ Cardinality(OwnedBy(resp[w].to)) = C5_Limit(resp[w].to)
           /\ batch[w] = {}
    /\ \A w \in Workers :
        (pc[w] = "commit" /\ req[w].msg.type = "did/request"
            /\ acl[req[w].msg.from].role = "owner")
        => Cardinality(OwnedBy(req[w].msg.from) \ {req[w].target})
                < C5_Limit(req[w].msg.from)

\* alice, on the default limit, holds as many DIDs as the limit allows, and
\* her next did/request is answered with quota-exceeded.
C5_Witness ==
    /\ pc["w1"] = "respond"
    /\ req["w1"].msg.type = "did/request"
    /\ resp["w1"].to = "alice"
    /\ resp["w1"].code = QuotaExceeded
    /\ Cardinality(OwnedBy("alice")) = DefaultMaxDidCount
    /\ \A m \in OwnedBy("alice") : Exists(DidKey(m)) /\ Rec(m).owner = "alice"

ManagingTypes == {"did/publish", "did/witness-publish", "did/info-request", "did/delete"}

\* Some key of mnemonic m differs between this state and the next.
Mutated(m) ==
    \E k \in KeysOfM(m) :
        \/ (k \in DOMAIN store) # (k \in DOMAIN store')
        \/ k \in DOMAIN store /\ k \in DOMAIN store' /\ store[k] # store'[k]

\* C6: when a publish, witness-publish, info-request or delete arrives for
\* an existing record, a sender without an AclEntry gets unauthorized, a
\* sender with role owner gets past authorization only if it is the
\* record's owner, and an admin always gets past it; and the keys of an
\* existing record only change in the batch of its owner or of an admin.
C6_Authorization ==
    [][ /\ \A w \in Workers :
            (pc[w] = "idle" /\ pc'[w] # "idle"
                /\ req'[w].msg.type \in ManagingTypes
                /\ Exists(DidKey(req'[w].msg.mnemonic)))
            => LET from  == req'[w].msg.from
                   owner == Rec(req'[w].msg.mnemonic).owner
                   unauthorized == /\ pc'[w] = "respond"
                                   /\ resp'[w].type = "did/problem-report"
                                   /\ resp'[w].code = Unauthorized
               IN /\ acl[from].role = "none" => unauthorized
                  /\ acl[from].role = "owner" => (unauthorized <=> from # owner)
                  /\ acl[from].role = "admin" => ~unauthorized
        /\ \A m \in Mnemonics :
            (Exists(DidKey(m)) /\ Mutated(m))
            => \E w \in Workers :
                /\ pc[w] = "commit"
                /\ req[w].target = m
                /\ \/ acl[req[w].msg.from].role = "admin"
                   \/ acl[req[w].msg.from].role = "owner"
                        /\ req[w].msg.from = Rec(m).owner
      ]_vars

\* bob, an owner, is refused a publish to the published DID of alice, and
\* in the same state nothing of that DID carries bob's name.
C6_Witness ==
    /\ pc["w1"] = "respond"
    /\ req["w1"].msg.type = "did/publish"
    /\ req["w1"].msg.from = "bob"
    /\ resp["w1"].code = Unauthorized
    /\ Exists(DidKey(req["w1"].msg.mnemonic))
    /\ Rec(req["w1"].msg.mnemonic).owner = "alice"
    /\ Rec(req["w1"].msg.mnemonic).version_count >= 1

\* C7: a did/delete from a non-admin for a record of another owner is
\* answered with unauthorized and leaves every stored key as it was.
C7_ForeignDeleteRefused ==
    [][ \A w \in Workers :
            (pc[w] = "idle" /\ pc'[w] # "idle"
                /\ req'[w].msg.type = "did/delete"
                /\ Exists(DidKey(req'[w].msg.mnemonic))
                /\ acl[req'[w].msg.from].role # "admin"
                /\ req'[w].msg.from # Rec(req'[w].msg.mnemonic).owner)
            => /\ pc'[w] = "respond"
               /\ resp'[w].type = "did/problem-report"
               /\ resp'[w].code = Unauthorized
               /\ resp'[w].thid = req'[w].msg.id
               /\ batch'[w] = {}
               /\ store' = store
      ]_vars

\* bob's did/delete of alice's DID, which has a log, a witness and
\* statistics, has been refused and all five keys are still there.
C7_Witness ==
    /\ pc["w1"] = "respond"
    /\ req["w1"].msg.type = "did/delete"
    /\ req["w1"].msg.from = "bob"
    /\ resp["w1"].code = Unauthorized
    /\ LET m == req["w1"].msg.mnemonic IN
        /\ Exists(DidKey(m)) /\ Rec(m).owner = "alice"
        /\ Exists(LogKey(m)) /\ Exists(WitnessKey(m))
        /\ Exists(OwnerKey("alice", m)) /\ Exists(StatsKey(m))

\* C8: a did/list to a non-admin lists exactly the sender's DIDs whatever
\* the owner field says; only to an admin does a supplied owner select that
\* owner's DIDs.
C8_ListOwnDids ==
    \A w \in Workers :
        (pc[w] = "respond" /\ resp[w].type = "did/list")
        => LET msg == req[w].msg
               listed == {d.mnemonic : d \in resp[w].dids}
           IN IF acl[msg.from].role = "admin" /\ msg.owner # Null
              THEN listed = OwnedBy(msg.owner)
              ELSE listed = OwnedBy(msg.from)

\* bob asked for alice's DIDs while both own one: the list holds bob's DID
\* and not alice's.
C8_Witness ==
    /\ pc["w1"] = "respond"
    /\ resp["w1"].type = "did/list"
    /\ req["w1"].msg.from = "bob"
    /\ req["w1"].msg.owner = "alice"
    /\ OwnedBy("alice") # {}
    /\ OwnedBy("bob") # {}
    /\ {d.mnemonic : d \in resp["w1"].dids} = OwnedBy("bob")

\* C9: a did/witness-publish for a record with version_count 0 is answered
\* with a problem-report (not-published when the sender is authorized) and
\* stores nothing; and a witness is stored only for a mnemonic whose record
\* has a did_id.
C9_WitnessNeedsPublished ==
    /\ \A w \in Workers :
        (pc[w] # "idle" /\ req[w].msg.type = "did/witness-publish"
            /\ Exists(DidKey(req[w].msg.mnemonic))
            /\ Rec(req[w].msg.mnemonic).version_count = 0)
        => /\ pc[w] = "respond"
           /\ resp[w].type = "did/problem-report"
           /\ (acl[req[w].msg.from].role = "admin"
                \/ (acl[req[w].msg.from].role = "owner"
                     /\ req[w].msg.from = Rec(req[w].msg.mnemonic).owner))
              => resp[w].code = NotPublished
    /\ \A m \in Mnemonics :
        Exists(WitnessKey(m)) => Exists(DidKey(m)) /\ Rec(m).did_id # Null

\* C10: the lifecycle of a mnemonic is Reserved, Published, ..., Deleted.  A
\* publish is only accepted for a mnemonic that has a record; a record that
\* stays never goes back to version_count 0 and never loses its log; and
\* Deleted is terminal: the record of a deleted mnemonic never exists again,
\* so that no publish, witness-publish, info-request or delete on it
\* succeeds.
C10_Lifecycle ==
    [][ /\ \A w \in Workers :
            (pc[w] = "idle" /\ pc'[w] = "commit" /\ req'[w].msg.type = "did/publish")
            => Exists(DidKey(req'[w].msg.mnemonic))
        /\ \A m \in Mnemonics :
            (Exists(DidKey(m)) /\ DidKey(m) \in DOMAIN store')
            => /\ Rec(m).version_count >= 1 => store'[DidKey(m)].version_count >= 1
               /\ Exists(LogKey(m)) => LogKey(m) \in DOMAIN store'
        /\ \A m \in gone : DidKey(m) \notin DOMAIN store'
        /\ \A w \in Workers :
            (pc[w] = "idle" /\ pc'[w] # "idle"
                /\ req'[w].msg.type \in ManagingTypes
                /\ req'[w].msg.mnemonic \in gone)
            => pc'[w] = "respond" /\ resp'[w].type = "did/problem-report"
      ]_vars

\* C11: mnemonics are unique over all owners.  A did/request for a path
\* that already has a record is answered with a problem-report
\* (path-unavailable when the sender passes the ACL and the quota) and
\* writes nothing; a reservation only starts for a mnemonic that has no
\* record and no batch in flight, so of two concurrent requests for one path
\* at most one is offered it; a did/offer is sent for the record of its
\* recipient; and the owner of a record never changes while it exists.
C11_MnemonicUnique ==
    [][ /\ \A w \in Workers :
            (pc[w] = "idle" /\ pc'[w] # "idle"
                /\ req'[w].msg.type = "did/request"
                /\ req'[w].msg.path # Null
                /\ Exists(DidKey(req'[w].msg.path)))
            => LET from == req'[w].msg.from IN
               /\ pc'[w] = "respond"
               /\ resp'[w].type = "did/problem-report"
               /\ batch'[w] = {}
               /\ store' = store
               /\ (acl[from].role = "admin"
                    \/ (acl[from].role = "owner"
                         /\ Cardinality(OwnedBy(from)) < C5_Limit(from)))
                  => resp'[w].code = PathUnavailable
        /\ \A w \in Workers :
            (pc[w] = "idle" /\ pc'[w] = "commit" /\ req'[w].msg.type = "did/request")
            => /\ ~Exists(DidKey(req'[w].target))
               /\ \A v \in Workers \ {w} :
                    ~(pc[v] = "commit" /\ req[v].target = req'[w].target)
        /\ \A w \in Workers :
            (pc[w] = "commit" /\ pc'[w] = "respond" /\ resp'[w].type = "did/offer")
            => /\ DidKey(resp'[w].mnemonic) \in DOMAIN store'
               /\ store'[DidKey(resp'[w].mnemonic)].owner = resp'[w].to
        /\ \A m \in Mnemonics :
            (Exists(DidKey(m)) /\ DidKey(m) \in DOMAIN store')
            => store'[DidKey(m)].owner = Rec(m).owner
      ]_vars

\* Two did/requests for m1 by different owners, both handled and not yet
\* answered: one holds the did/offer, the other path-unavailable.
C11_Witness ==
    \E w, v \in Workers :
        /\ pc[w] = "respond" /\ pc[v] = "respond"
        /\ req[w].msg.type = "did/request" /\ req[v].msg.type = "did/request"
        /\ req[w].msg.path = "m1" /\ req[v].msg.path = "m1"
        /\ req[w].msg.from # req[v].msg.from
        /\ resp[w].type = "did/offer" /\ resp[w].mnemonic = "m1"
        /\ resp[v].code = PathUnavailable
        /\ Exists(DidKey("m1")) /\ Rec("m1").owner = resp[w].to

\* C12: a did/publish that fails leaves the record, the log and the
\* statistics of its mnemonic as they were.  A did/publish that is rejected
\* writes nothing, and a step in which the batch of a did/publish writes
\* anything writes record, log and statistics together and ends in the
\* did/confirm, so that a batch that fails has written nothing.
C12_FailedPublishNoEffect ==
    [][ /\ \A w \in Workers :
            (pc[w] = "idle" /\ pc'[w] = "respond"
                /\ req'[w].msg.type = "did/publish"
                /\ resp'[w].type = "did/problem-report")
            => store' = store /\ batch'[w] = {}
        /\ \A w \in Workers :
            (pc[w] = "commit" /\ req[w].msg.type = "did/publish"
                /\ Mutated(req[w].target))
            => LET m == req[w].target IN
               /\ pc'[w] = "respond"
               /\ resp'[w].type = "did/confirm"
               /\ \A k \in {DidKey(m), LogKey(m), StatsKey(m)} :
                    /\ k \in DOMAIN store'
                    /\ \E o \in batch[w] : o.key = k /\ store'[k] = o.val
        /\ \A w \in Workers :
            (pc[w] = "commit" /\ req[w].msg.type = "did/publish"
                /\ pc'[w] = "respond" /\ resp'[w].type = "did/problem-report")
            => store' = store
      ]_vars

Validated(w) ==
    /\ pc[w] # "idle"
    /\ req[w].msg.type = "did/publish"
    /\ resp[w].code \notin {Unauthorized, MnemonicNotFound}
    /\ \A i \in 1..Len(req[w].msg.did_log) :
        /\ req[w].msg.did_log[i].kind = "json"
        /\ req[w].msg.did_log[i].has = RequiredFields

\* The log of that did/publish passed validateChain.
Accepted(w) == Validated(w) /\ resp[w].code \notin {InvalidLogCode, ProofInvalidCode}

\* The entries of the log that worker w was sent.
Submitted(w) ==
    [i \in 1..Len(req[w].msg.did_log) |-> req[w].msg.did_log[i].e]

\* C14: a log passes validateChain only if the version numbers of its
\* entries are 1, 2, 3, ... in order; a log with a gap, a repeat or a
\* regression is rejected, and with e.p.did.invalid-log when the entries
\* before the first wrong version number are valid.
C14_VersionsInOrder ==
    \A w \in Workers :
        Validated(w) =>
            LET es == Submitted(w) IN
            /\ Accepted(w) => \A i \in 1..Len(es) : es[i].n = i
            /\ \A i \in 1..Len(es) :
                (/\ es[i].n # i
                 /\ \A j \in 1..(i - 1) : es[j].n = j
                 /\ i > 1 => validateChain(SubSeq(es, 1, i - 1)) = "ok")
                => /\ pc[w] = "respond"
                   /\ resp[w].type = "did/problem-report"
                   /\ resp[w].code = InvalidLogCode

\* A valid first entry "1-t1" followed by an entry "3-t3" that is hashed
\* over "1-t1" and signed by the right key: answered with invalid-log.
C14_Witness ==
    /\ pc["w1"] = "respond"
    /\ req["w1"].msg.type = "did/publish"
    /\ resp["w1"].code = InvalidLogCode
    /\ Len(req["w1"].msg.did_log) = 2
    /\ LET es == Submitted("w1") IN
        /\ validateChain(<<es[1]>>) = "ok"
        /\ es[2].n = 3 /\ es[2].prev = es[1].tag
        /\ es[2].signer \in es[1].keys /\ es[2].suite = SupportedSuite

\* C15: a log passes validateChain only if the proof of its first entry is
\* of the supported cryptosuite and made by a key of that entry's own
\* updateKeys, and the proof of every later entry is of the supported
\* cryptosuite and made by a key of the previous entry's updateKeys; so a
\* later entry signed by a key that only its own updateKeys hold, and an
\* entry with an unsupported cryptosuite, are rejected.
C15_ProofByPreviousKeys ==
    \A w \in Workers :
        Accepted(w) =>
            LET es == Submitted(w) IN
            /\ es[1].suite = SupportedSuite
            /\ es[1].signer \in es[1].keys
            /\ \A i \in 2..Len(es) :
                /\ es[i].suite = SupportedSuite
                /\ es[i].signer \in es[i - 1].keys

\* A valid first entry with updateKeys {k1} followed by a version 2 that
\* rotates to {k2} and is signed by k2: answered with proof-invalid.
C15_Witness ==
    /\ pc["w1"] = "respond"
    /\ req["w1"].msg.type = "did/publish"
    /\ resp["w1"].code = ProofInvalidCode
    /\ Len(req["w1"].msg.did_log) = 2
    /\ LET es == Submitted("w1") IN
        /\ validateChain(<<es[1]>>) = "ok"
        /\ es[2].n = 2 /\ es[2].prev = es[1].tag
        /\ es[2].suite = SupportedSuite
        /\ es[2].signer \in es[2].keys
        /\ es[2].signer \notin es[1].keys

\* C16: a single-entry log whose derived SCID differs from parameters.scid
\* or from the SCID in state.id is rejected whether its proof is valid or
\* not, and always with the failure of the SCID check (invalid-log), also
\* when the proof would fail too.
C16_ScidBeforeProof ==
    \A w \in Workers :
        (/\ Validated(w)
         /\ Len(req[w].msg.did_log) = 1
         /\ LET e == Submitted(w)[1] IN
                DeriveScid(e) # e.scid \/ IdScid(e.id) # e.scid)
        => /\ pc[w] = "respond"
           /\ resp[w].type = "did/problem-report"
           /\ resp[w].code = InvalidLogCode

\* A single first entry whose derived SCID is wrong and whose proof is made
\* by a key outside its updateKeys: answered with invalid-log.
C16_Witness ==
    /\ pc["w1"] = "respond"
    /\ req["w1"].msg.type = "did/publish"
    /\ resp["w1"].code = InvalidLogCode
    /\ Len(req["w1"].msg.did_log) = 1
    /\ LET e == Submitted("w1")[1] IN
        /\ e.n = 1 /\ e.prev = e.scid
        /\ DeriveScid(e) # e.scid
        /\ e.signer \notin e.keys

SuccessOf(type) ==
    CASE type = "did/request"         -> "did/offer"
      [] type = "did/publish"         -> "did/confirm"
      [] type = "did/witness-publish" -> "did/witness-confirm"
      [] type = "did/info-request"    -> "did/info"
      [] type = "did/list-request"    -> "did/list"
      [] type = "did/delete"          -> "did/delete-confirm"
      [] OTHER                        -> "none"

\* The problem codes that apply to an inbound message type.
CodesOf(type) ==
    {Unauthorized, InternalError} \cup
    CASE type = "did/request"         -> {QuotaExceeded, PathUnavailable, PathInvalid}
      [] type = "did/publish"         -> {MnemonicNotFound, InvalidLogCode, ProofInvalidCode,
                                          SizeExceeded}
      [] type = "did/witness-publish" -> {MnemonicNotFound, WitnessInvalid, NotPublished}
      [] type = "did/info-request"    -> {MnemonicNotFound, NotPublished}
      [] type = "did/delete"          -> {MnemonicNotFound}
      [] OTHER                        -> {}

\* C18: every inbound message gets exactly one response.  A worker only
\* leaves a message by sending the response it holds, which is either the
\* success type paired with the inbound type or a problem-report with a
\* code that applies to that type or internal-error; while it handles the
\* message it does not take another; and every message taken is eventually
\* answered.
C18_OneResponse ==
    /\ [][ \A w \in Workers :
            /\ (pc[w] # "idle" /\ pc'[w] = "idle")
                => /\ pc[w] = "respond"
                   /\ \/ resp[w].type = SuccessOf(req[w].msg.type) /\ resp[w].code = Null
                      \/ /\ resp[w].type = "did/problem-report"
                         /\ resp[w].code \in CodesOf(req[w].msg.type)
                   /\ resp[w].thid = req[w].msg.id
            /\ (pc[w] # "idle" /\ pc'[w] # "idle") => req'[w].msg = req[w].msg
            /\ (pc[w] = "respond" /\ pc'[w] # "idle") => UNCHANGED <<pc[w], resp[w]>>
         ]_vars
    /\ \A w \in Workers : (pc[w] # "idle") ~> (pc[w] = "idle")

\* The backend failed under the batch of a did/publish and the sender is
\* about to get e.p.did.internal-error.
C18_Witness ==
    \E w \in Workers :
        /\ pc[w] = "respond"
        /\ req[w].msg.type = "did/publish"
        /\ resp[w].type = "did/problem-report"
        /\ resp[w].code = InternalError
        /\ batch[w] = {}

\* C19: a DID-management message whose Bearer token belongs to no session,
\* or to the session of a DID other than its from field, is refused at the
\* endpoint: no handler answers it, no batch is prepared and the store stays
\* as it is; every batch in flight belongs to a message whose from field is
\* the DID of its session.
C19_SessionRequired ==
    [][ \A w \in Workers :
            /\ (/\ pc[w] = "idle" /\ pc'[w] # "idle"
                /\ \/ SessionDid(req'[w].msg.bearer) = Null
                   \/ SessionDid(req'[w].msg.bearer) # req'[w].msg.from)
                => /\ pc'[w] = "respond"
                   /\ resp'[w].type = "http/401"
                   /\ batch'[w] = {}
                   /\ store' = store
            /\ pc'[w] = "commit"
                => SessionDid(req'[w].msg.bearer) = req'[w].msg.from
      ]_vars

\* A did/delete of alice's published DID, named as from alice but sent under
\* bob's token, has been refused and the DID is still there.
C19_Witness ==
    /\ pc["w1"] = "respond"
    /\ req["w1"].msg.type = "did/delete"
    /\ req["w1"].msg.from = "alice"
    /\ req["w1"].msg.bearer = "tok-bob"
    /\ resp["w1"].type = "http/401"
    /\ Exists(DidKey(req["w1"].msg.mnemonic))
    /\ Rec(req["w1"].msg.mnemonic).owner = "alice"
    /\ Exists(LogKey(req["w1"].msg.mnemonic))

\* C20: a did/info or a did/list shows a committed state, never a batch
\* half applied.  A did/info shows a log and a did_id exactly when its
\* version_count is at least one, and statistics whose total_updates match
\* that version_count; every DID of a did/list has its record.
C20_ReadsSeeCommittedState ==
    \A w \in Workers :
        /\ (pc[w] = "respond" /\ resp[w].type = "did/info")
            => /\ resp[w].has_log <=> resp[w].version_count >= 1
               /\ resp[w].did_id # Null <=> resp[w].version_count >= 1
               /\ resp[w].stats.total_updates = resp[w].version_count
        /\ (pc[w] = "respond" /\ resp[w].type = "did/list")
            => \A d \in resp[w].dids : d.version_count >= 0

\* The size limit in force for an actor: its override, else the default.
C21_Limit(a) ==
    IF acl[a].max_total_size # NoOverride THEN acl[a].max_total_size
    ELSE DefaultMaxTotalSize

\* What owner o would store after log replaces the log of m: the logs of
\* its other records plus the incoming log.
C21_NewTotal(o, m, log) ==
    SumSizes({n \in Mnemonics \ {m} : Exists(DidKey(n)) /\ Rec(n).owner = o})
        + Len(log)

C22_Step(m) ==
    LET old == store[StatsKey(m)]
        new == store'[StatsKey(m)]
        stays == StatsKey(m) \in DOMAIN store'
    IN /\ stays => /\ new.total_resolves >= old.total_resolves
                   /\ new.total_updates >= old.total_updates
       /\ (stays /\ new.total_updates # old.total_updates) =>
              \E w \in Workers :
                  /\ pc[w] = "commit" /\ pc'[w] = "respond"
                  /\ req[w].target = m
                  /\ resp'[w].type = "did/confirm"
       /\ (stays /\ new.total_resolves # old.total_resolves) =>
              /\ pc' = pc
              /\ LogKey(m) \in DOMAIN store
              /\ new = [old EXCEPT !.total_resolves = old.total_resolves + 1]
       /\ ~stays => DidKey(m) \notin DOMAIN store'

C22_StatsMonotonic ==
    [][\A m \in Mnemonics : Exists(StatsKey(m)) => C22_Step(m)]_vars

\* The same on the fjall build alone.
C22_StatsMonotonicFjall ==
    [][\A m \in Mnemonics :
          (backend = "fjall" /\ Exists(StatsKey(m))) => C22_Step(m)]_vars


\* What a log has to satisfy, entry by entry, stated without validateChain.
C23_Valid(entries) ==
    /\ Len(entries) >= 1
    /\ \A i \in 1..Len(entries) :
        /\ VersionOk(entries, i)
        /\ i = 1 => /\ DeriveScid(entries[1]) = entries[1].scid
                     /\ IdScid(entries[1].id) = entries[1].scid
        /\ ProofOk(entries, i)

C24_Parsed(w) ==
    /\ pc[w] # "idle"
    /\ req[w].msg.type = "did/publish"
    /\ resp[w].code \notin {Unauthorized, MnemonicNotFound}

\* A non-empty line that is not a JSON object with the five required fields.
C24_BadLine(l) ==
    /\ l.kind # "empty"
    /\ l.kind # "json" \/ l.has # {"versionId", "versionTime", "parameters", "state", "proof"}

C24_WitnessMissing ==
    /\ pc["w1"] = "respond"
    /\ resp["w1"].code = InvalidLogCode
    /\ req["w1"].msg.did_log = <<Line(E1A), LineMissing(E1A, "proof")>>


\* C25: the owner index agrees with the records in every reachable state
\* that has no batch in flight: owner:{o}:{m} exists exactly when a
\* DidRecord of m exists and its owner is o.
C25_OwnerIndexAgrees ==
    (\A w \in Workers : pc[w] # "commit") =>
        \A o \in Actors, m \in Mnemonics :
            Exists(OwnerKey(o, m)) <=> (Exists(DidKey(m)) /\ Rec(m).owner = o)


\* What an account holds, read from the records.
C26_Held(a) == {m \in Mnemonics : Exists(DidKey(m)) /\ Rec(m).owner = a}

C27_Prefix(s, t) == Len(s) <= Len(t) /\ \A i \in 1..Len(s) : s[i] = t[i]

\* C27: the stored log of a mnemonic is append-only: whenever a step changes
\* a stored log into another stored log, the entries stored before are a
\* prefix of the entries stored after.
C27_AppendOnly ==
    [][\A m \in Mnemonics :
          (Exists(LogKey(m)) /\ LogKey(m) \in DOMAIN store')
          => C27_Prefix(parse(store[LogKey(m)]).entries,
                        parse(store'[LogKey(m)]).entries)]_vars


\* The entry at position i of a log is invalid.
C28_Invalid(es, i) == ~(VersionOk(es, i) /\ (i = 1 => ScidOk(es[1])) /\ ProofOk(es, i))

\* C28: a did/publish whose log has an invalid entry at some position is
\* refused as a whole: the handler answers with the problem-report of the
\* first invalid entry (proof-invalid when only its proof is wrong,
\* invalid-log otherwise), writes nothing and hands no batch to the store,
\* so neither the log nor a prefix of it is stored.
C28_NoPartialAcceptance ==
    [][\A w \in Workers :
          (/\ pc[w] = "idle" /\ pc'[w] # "idle"
           /\ req'[w].msg.type = "did/publish"
           /\ resp'[w].code \notin {Unauthorized, MnemonicNotFound}
           /\ \A i \in 1..Len(req'[w].msg.did_log) : LineOk(req'[w].msg.did_log[i]))
          => LET raw == req'[w].msg.did_log
                 es == [i \in 1..Len(raw) |-> raw[i].e]
                 bad == {i \in 1..Len(es) : C28_Invalid(es, i)}
             IN bad # {} =>
                 LET first == CHOOSE i \in bad : \A j \in bad : i <= j IN
                 /\ pc'[w] = "respond"
                 /\ resp'[w].type = "did/problem-report"
                 /\ resp'[w].code =
                        IF VersionOk(es, first) /\ (first = 1 => ScidOk(es[1]))
                        THEN ProofInvalidCode ELSE InvalidLogCode
                 /\ batch'[w] = {}
                 /\ store' = store
      ]_vars

\* A stored one-entry log, and a did/publish of that entry followed by an
\* entry signed by a key that is not in its updateKeys: refused with
\* proof-invalid, the stored log as it was.
C28_Witness ==
    /\ pc["w1"] = "respond"
    /\ req["w1"].msg.type = "did/publish"
    /\ Len(req["w1"].msg.did_log) = 2
    /\ resp["w1"].code = ProofInvalidCode
    /\ Exists(LogKey("m1"))
    /\ store[LogKey("m1")] = <<req["w1"].msg.did_log[1]>>
    /\ validateChain(<<req["w1"].msg.did_log[1].e>>) = "ok"


C30_DeleteBothStates ==
    [][\A w \in Workers :
          /\ (/\ pc[w] = "idle" /\ pc'[w] # "idle"
              /\ req'[w].msg.type = "did/delete"
              /\ acl[req'[w].msg.from].role \in {"owner", "admin"})
             => LET msg == req'[w].msg
                    m == msg.mnemonic
                IN /\ ~Exists(DidKey(m)) =>
                        /\ pc'[w] = "respond"
                        /\ resp'[w].type = "did/problem-report"
                        /\ resp'[w].code = MnemonicNotFound
                        /\ store' = store
                   /\ (/\ Exists(DidKey(m))
                       /\ acl[msg.from].role = "admin" \/ Rec(m).owner = msg.from) =>
                        /\ pc'[w] = "commit"
                        /\ resp'[w].type = "did/delete-confirm"
                        /\ resp'[w].thid = msg.id
                        /\ resp'[w].mnemonic = m
                        /\ resp'[w].did_id = Rec(m).did_id
                        /\ Rec(m).version_count = 0 => resp'[w].did_id = Null
                        /\ Rec(m).version_count > 0 => resp'[w].did_id # Null
          /\ (/\ pc[w] = "commit" /\ pc'[w] = "respond"
              /\ resp'[w].type = "did/delete-confirm")
             => /\ DidKey(resp'[w].mnemonic) \notin DOMAIN store'
                /\ \A o \in Actors : OwnerKey(o, resp'[w].mnemonic) \notin DOMAIN store'
                /\ LogKey(resp'[w].mnemonic) \notin DOMAIN store'
      ]_vars

\* alice's reservation m1, never published, has been deleted and the
\* did/delete-confirm with did_id null is about to be sent.
C30_Witness ==
    /\ pc["w1"] = "respond"
    /\ req["w1"].msg.type = "did/delete"
    /\ req["w1"].msg.from = "alice"
    /\ resp["w1"].type = "did/delete-confirm"
    /\ resp["w1"].mnemonic = "m1"
    /\ resp["w1"].did_id = Null
    /\ ~Exists(DidKey("m1")) /\ ~Exists(OwnerKey("alice", "m1"))


\* C31: the commit of a did/witness-publish stores the submitted witness as
\* the whole content of content:{m}:witness and changes no other key: the
\* DidRecord (did_id, version_count), the stored log and the Stats of m are
\* as before; and the commit of a did/publish leaves the stored witness as
\* it was.
C31_WitnessFrame ==
    [][\A w \in Workers :
          /\ (/\ pc[w] = "commit" /\ pc'[w] = "respond"
              /\ resp'[w].type = "did/witness-confirm")
             => LET m == req[w].msg.mnemonic IN
                /\ WitnessKey(m) \in DOMAIN store'
                /\ store'[WitnessKey(m)] = req[w].msg.witness
                /\ DOMAIN store' = DOMAIN store \cup {WitnessKey(m)}
                /\ \A k \in DOMAIN store : k # WitnessKey(m) => store'[k] = store[k]
                /\ store'[DidKey(m)].did_id = store[DidKey(m)].did_id
                /\ store'[DidKey(m)].version_count = store[DidKey(m)].version_count
                /\ store'[LogKey(m)] = store[LogKey(m)]
                /\ store'[StatsKey(m)].total_updates = store[StatsKey(m)].total_updates
          /\ (/\ pc[w] = "commit" /\ pc'[w] = "respond"
              /\ resp'[w].type = "did/confirm")
             => \A m \in Mnemonics :
                    /\ (WitnessKey(m) \in DOMAIN store') = Exists(WitnessKey(m))
                    /\ Exists(WitnessKey(m)) => store'[WitnessKey(m)] = store[WitnessKey(m)]
      ]_vars

\* The witness wit2 has been stored for the published m1, the record and
\* the statistics still at one update.
C31_Witness ==
    /\ pc["w1"] = "respond"
    /\ resp["w1"].type = "did/witness-confirm"
    /\ req["w1"].msg.mnemonic = "m1"
    /\ req["w1"].msg.witness = "wit2"
    /\ store[WitnessKey("m1")] = "wit2"
    /\ Rec("m1").version_count = 1
    /\ StatsOf("m1").total_updates = 1
    /\ gone = {}


\* The segment grammar, stated over the characters of a path.
C32_Grammar(path) ==
    LET cs == PathChars(path)
        cuts == {0, Len(cs) + 1} \cup {i \in 1..Len(cs) : cs[i] = "/"}
    IN /\ \A i \in 1..Len(cs) :
            cs[i] = "/" \/ cs[i] \in LowerCase \cup Digits \cup {"-"}
       /\ \A a \in cuts, b \in cuts :
            (a < b /\ \A c \in cuts : ~(a < c /\ c < b))
            => (b - a - 1 >= 2 /\ b - a - 1 <= 63)

\* C32: every mnemonic that has a DidRecord satisfies the segment grammar,
\* and a did/request whose path violates the grammar is refused without a
\* write whoever sends it, with path-invalid when the sender is in the ACL
\* and under its quota.
C32_PathGrammar ==
    /\ \A p \in CustomPaths : Exists(DidKey(p)) => C32_Grammar(p)
    /\ \A w \in Workers :
        (/\ pc[w] # "idle"
         /\ req[w].msg.type = "did/request"
         /\ req[w].msg.path # Null
         /\ ~C32_Grammar(req[w].msg.path))
        => /\ pc[w] = "respond"
           /\ resp[w].type = "did/problem-report"
           /\ resp[w].code \in {Unauthorized, QuotaExceeded, PathInvalid}
           /\ acl[req[w].msg.from].role = "admin" => resp[w].code = PathInvalid


\* C33: a batch is retried at most MaxRetries times after transient storage
\* failures and every operation that reached the store ends with a response:
\* the success response once the whole batch is written, or internal-error
\* once the retries are used up; a did/publish refused by validation
\* (invalid-log, proof-invalid) is answered without a storage attempt and
\* without a retry.
C33_BoundedRetries ==
    /\ [](\A w \in Workers : req[w].attempt <= MaxRetries)
    /\ [](\A w \in Workers :
            (pc[w] = "respond" /\ resp[w].code \in {InvalidLogCode, ProofInvalidCode})
            => req[w].attempt = 0 /\ batch[w] = {})
    /\ [][\A w \in Workers :
            /\ (pc[w] = "commit" /\ pc'[w] = "respond")
               => \/ /\ resp'[w].type # "did/problem-report"
                     /\ \E o \in batch[w] : batch[w] = {o} /\ store' = Apply(store, o)
                     /\ batch'[w] = {}
                  \/ /\ resp'[w].type = "did/problem-report"
                     /\ resp'[w].code = InternalError
                     /\ req[w].attempt = MaxRetries
            /\ (pc[w] = "respond" /\ pc'[w] = "respond") => req'[w] = req[w]
      ]_vars
    /\ \A w \in Workers : (pc[w] = "commit") ~> (pc[w] = "respond")
    /\ \A w \in Workers : (pc[w] # "idle") ~> (pc[w] = "idle")

\* The second retry of a publish batch has failed as well: internal-error.
C33_Witness ==
    /\ pc["w1"] = "respond"
    /\ req["w1"].msg.type = "did/publish"
    /\ req["w1"].attempt = MaxRetries
    /\ resp["w1"].code = InternalError


C38_StaleUnauthorized ==
    [][\A r \in ui.inflight :
          (/\ RequestResponse(r, 401)
           /\ r.token # Null
           /\ ui.stored # Null
           /\ r.token # ui.stored)
          => /\ ui'.stored = ui.stored
             /\ ui'.token = ui.token
             /\ isAuthenticated'
      ]_vars


\* C39: whenever pathStatus shows "available" or "taken" it is the result of
\* the check issued for the path now in the input, and an input shorter
\* than 2 characters shows no status.
C39_StatusOfCurrentInput ==
    /\ form.pathStatus \in {"available", "taken"}
          => form.statusOf = trim(form.customPath)
    /\ Len(trim(form.customPath)) < 2 => form.pathStatus = Null

\* C35: in every reachable state that has no batch in flight, a mnemonic
\* with both a DidRecord and a Stats record has Stats.total_updates equal to
\* DidRecord.version_count.
C35_UpdatesMatchVersions ==
    (\A w \in Workers : pc[w] # "commit") =>
        \A m \in Mnemonics :
            (Exists(DidKey(m)) /\ Exists(StatsKey(m)))
                => store[StatsKey(m)].total_updates = store[DidKey(m)].version_count


\* C36: with reservations for different mnemonics in flight at once, the
\* number of DidRecords a non-admin owner has never exceeds its limit.
C36_QuotaUnderConcurrency ==
    \A a \in Owners :
        Cardinality({m \in Mnemonics : Exists(DidKey(m)) /\ store[DidKey(m)].owner = a})
            <= MaxDidCount(a)


\* C37: with a delete and a publish or witness-publish of one mnemonic
\* handled at once, in every reachable state that has no batch in flight
\* the log, the witness file and the Stats record of a mnemonic exist only
\* if its DidRecord exists.
C37_NoOrphans ==
    (\A w \in Workers : pc[w] # "commit") =>
        \A m \in Mnemonics :
            (Exists(LogKey(m)) \/ Exists(WitnessKey(m)) \/ Exists(StatsKey(m)))
                => Exists(DidKey(m))

====
